---- MODULE Spec2Model ----
(***************************************************************************)
(* A model of tradezero_api.main.TradeZero: the symbol loader              *)
(* (load_symbol), the locate negotiator (locate_stock, credit_locates) and *)
(* the five order operations, as one sequential program driving a DOM.     *)
(* The DOM is the environment: every read of it is a nondeterministic      *)
(* choice made at the instant of the read.                                 *)
(***************************************************************************)
EXTENDS Integers, Sequences, FiniteSets, TLC

\* ------------------------------------------------------------------------
\* Program constants
\* ------------------------------------------------------------------------

\* for i in range(300) of load_symbol
LoadPolls == 300

\* the early notification checkpoint of load_symbol (i == 15)
EarlyCheck == 15

\* for i in range(300) of locate_stock
OfferPolls == 300

\* share_amount % 100, quantity % 100
LotSize == 100

\* float('inf'): above every total the offer table can show
Inf == 1000000

\* time_between((9, 30), (16, 0))
MarketOpen == <<9, 30>>

MarketClose == <<16, 0>>

\* ------------------------------------------------------------------------
\* Bounds of the model
\* ------------------------------------------------------------------------

\* offer totals range over 1..MaxTotal (cost units), max_price over 0..MaxTotal
MaxTotal == 2

\* share quantities range over the multiples of half a lot up to MaxHalfLots
MaxHalfLots == 4

\* the presence probes of a call of conn are counted up to MaxProbes
MaxProbes == 2

\* the polls of the status loop of locate_stock are counted modulo
\* StatusPollWrap
StatusPollWrap == 2

\* consecutive calls of conn that end at their first probe are counted up to
\* MaxNoops
MaxNoops == 2

\* ------------------------------------------------------------------------
\* Strings.  A text is a sequence of one-character strings, so that
\* str.replace, str.isdigit and float() are computed, not assumed.
\* ------------------------------------------------------------------------

Digits == {"0", "1", "2", "3", "4", "5", "6", "7", "8", "9"}

\* str.replace(ch, ''): every occurrence of ch removed
Remove(text, ch) == SelectSeq(text, LAMBDA c : c # ch)

\* .text.replace('.', '').replace(',', '')
StripPrice(text) == Remove(Remove(text, "."), ",")

\* str.isdigit(): non-empty and digits only
IsDigit(text) == Len(text) > 0 /\ \A k \in 1..Len(text) : text[k] \in Digits

\* float(price) == 0 for a string of digits: every digit is 0
FloatIsZero(text) == \A k \in 1..Len(text) : text[k] = "0"

\* the requested symbols (as the caller writes them) and the panel's spelling
Symbols == {"aapl", "Amd"}

\* str.upper() on the symbols of the model
ToUpper(s) == CASE s \in {"aapl", "Aapl", "AAPL"} -> "AAPL"
                [] s \in {"amd", "Amd", "AMD"} -> "AMD"
                [] OTHER -> s

\* str.lower() on the symbols of the model
ToLower(s) == CASE s \in {"aapl", "Aapl", "AAPL"} -> "aapl"
                [] s \in {"amd", "Amd", "AMD"} -> "amd"
                [] OTHER -> s

\* ------------------------------------------------------------------------
\* The DOM, as the program reads it
\* ------------------------------------------------------------------------

\* what the ask field can show: not rendered, zero, a price below one, a
\* price, a price with a thousands separator, a placeholder
AskTexts == { <<>>,
              <<"0", ".", "0", "0">>,
              <<"0", ".", "5", "0">>,
              <<"1", "2", ".", "3", "4">>,
              <<"1", ",", "2", "3", "4", ".", "5", "0">>,
              <<"-", "-">> }

\* what the symbol element of the quote panel can show: tokens of its text
PanelTexts == { <<>>, <<"AAPL", "(USD)">>, <<"AMD", "(USD)">> }

\* the last notification message: none, or 'Symbol not found: X'
NoNotification == <<>>

NotFoundMessage(symbol) == <<"Symbol not found: ", ToUpper(symbol)>>

Notifications == {NoNotification} \cup {NotFoundMessage(s) : s \in Symbols}

\* the clock readings of the model: 09:29, 09:30, 16:01
Times == { <<9, 29>>, <<9, 30>>, <<16, 1>> }

\* TIF values: the three the order form offers and one it does not
TimeInForce == {"DAY", "GTX", "IOC"}

\* Order values
Directions == {"buy", "short"}

\* share quantities: 50, 100, 150, ...
Quantities == {50 * k : k \in 1..MaxHalfLots}

Totals == 1..MaxTotal

\* the price per share the row of an offer type shows once it is readable
\* (cost units): one per type, in the opposite order of the evaluation
PpsOf(type) == CASE type = "PreBorrow" -> 3
                 [] type = "SingleUse" -> 2
                 [] type = "Locate" -> 1

MaxPrices == 0..MaxTotal

\* the three offer types, in the order the code evaluates them
LocateTypes == <<"PreBorrow", "SingleUse", "Locate">>

TypeNames == {"PreBorrow", "SingleUse", "Locate"}

\* what the status field of the locate tab can show
StatusTexts == {"", "Easy to borrow", "Hard to borrow"}

\* an optional float: <<>> is None, <<v>> is the value v
None == <<>>

Some(v) == <<v>>

\* one offer row as a poll finds it: no readable price (the row is missing
\* or its cells are not rendered), a readable price only, price and total
OfferRows(type) ==
    {[st |-> "none", pps |-> 0, total |-> 0]}
    \cup {[st |-> "pps", pps |-> PpsOf(type), total |-> 0]}
    \cup {[st |-> "full", pps |-> PpsOf(type), total |-> t] : t \in Totals}

\* the offer table: one row per type
OfferTables ==
    {[t \in TypeNames |-> CASE t = "PreBorrow" -> rp
                            [] t = "SingleUse" -> rs
                            [] t = "Locate" -> rl] :
        rp \in OfferRows("PreBorrow"), rs \in OfferRows("SingleUse"),
        rl \in OfferRows("Locate")}

NoRows == [t \in TypeNames |-> [st |-> "none", pps |-> 0, total |-> 0]]

NoOffers == [t \in TypeNames |-> None]

\* the locate inventory table: the located symbols and the shares of each
Inventories ==
    {[syms |-> {}, shares |-> 0]}
    \cup {[syms |-> {"AAPL"}, shares |-> n] : n \in {100, 200}}

NoInventory == [syms |-> {}, shares |-> 0]

VARIABLES
    pc,        \* position of the program: idle, load_poll, after_load, ..., done
    call,      \* the operation in progress and its arguments
    i,         \* index of the running poll loop
    loadRes,   \* what load_symbol returned to its caller: True, False, None
    log,       \* the DOM mutations issued by the current call, in order
    result,    \* outcome of the current call once pc = "done"
    panel,     \* DOM: text of the quote panel's symbol element
    lastAsk,   \* the ask text the latest poll of load_symbol read
    lastNotif, \* the last notification message at the latest poll
    now,       \* the clock as the order operation in progress found it
    status,    \* locate_stock: the status text read after the status poll
    rows,      \* DOM: the offer rows as the poll that ended the loop found them
    pps,       \* locate_stock: locate_pps_<type>, None until read
    total,     \* locate_stock: locate_total_<type>, None until read
    selected,  \* locate_stock: selected_locate_type
    inventory, \* DOM: the locate inventory credit_locates read
    popup,     \* DOM: the short-locate popup after the submit click
    probes,    \* conn: the presence probes made by the call so far
    seen,      \* conn: a probe of the call found the authenticated layout
    layout,    \* DOM: the headings the latest presence probe found
    noops,     \* the calls of conn just before this one that ended at their first probe
    reads,     \* data: the quote fields read, element id and text, in order
    quote      \* data: the fields of the quote returned

loadVars == <<i, loadRes, lastAsk, lastNotif>>

locateVars == <<status, rows, pps, total, selected>>

connVars == <<probes, seen, layout, noops>>

dataVars == <<reads, quote>>

vars == <<pc, call, i, loadRes, log, result, panel, lastAsk, lastNotif, now,
          status, rows, pps, total, selected, inventory, popup, probes, seen,
          layout, noops, reads, quote>>

\* ------------------------------------------------------------------------
\* Calls, results and DOM mutations
\* ------------------------------------------------------------------------

NoCall == [op |-> "none", symbol |-> "", qty |-> 0, qtyGiven |-> TRUE,
           dir |-> "", tif |-> "", maxPrice |-> 0, hide |-> FALSE]

NoResult == [kind |-> "none", val |-> "", pps |-> 0, total |-> 0]

Return(v) == [kind |-> "return", val |-> v, pps |-> 0, total |-> 0]

Raise(e) == [kind |-> "raise", val |-> e, pps |-> 0, total |-> 0]

\* Data(price_per_share, total)
Data(p, t) == [kind |-> "return", val |-> "Data", pps |-> p, total |-> t]

\* element.click()
Click(target) == [a |-> "click", t |-> target, s |-> "", n |-> 0]

\* element.send_keys(text) / send_keys(number)
TypeText(target, text) == [a |-> "type", t |-> target, s |-> text, n |-> 0]

\* element.clear()
Clear(target) == [a |-> "clear", t |-> target, s |-> "", n |-> 0]

TypeNum(target, num) == [a |-> "type", t |-> target, s |-> "", n |-> num]

\* Select(element).select_by_index(k) / select_by_visible_text(label)
SelectIndex(target, k) == [a |-> "select", t |-> target, s |-> "", n |-> k]

SelectLabel(target, label) == [a |-> "select", t |-> target, s |-> label, n |-> 0]

\* ------------------------------------------------------------------------
\* load_symbol
\* ------------------------------------------------------------------------

\* current_symbol(): the panel's text with '(USD)' removed
current_symbol(text) ==
    LET rest == Remove(text, "(USD)")
    IN  IF rest = <<>> THEN "" ELSE rest[1]

\* ShortCircuit with the symbol compared as the caller wrote it (no upper())
ShortCircuit_CaseSensitive(symbol, text, ask) ==
    /\ symbol = current_symbol(text)
    /\ IsDigit(StripPrice(ask))
    /\ ~FloatIsZero(StripPrice(ask))

\* load_symbol's short circuit: the symbol is the active one and its ask
\* price is a positive number
ShortCircuit(symbol, text, ask) ==
    /\ ToUpper(symbol) = current_symbol(text)
    /\ IsDigit(StripPrice(ask))
    /\ ~FloatIsZero(StripPrice(ask))

\* PollOutcome without the zero test: every numeric ask is Ready
PollOutcome_ZeroIsReady(symbol, k, ask, notif) ==
    LET price == StripPrice(ask)
    IN  CASE price = <<>> -> "next"
          [] price # <<>> /\ IsDigit(price) -> "true"
          [] price # <<>> /\ ~IsDigit(price) /\ (k = EarlyCheck \/ k = LoadPolls - 1)
                /\ notif = NotFoundMessage(symbol) -> "raise"
          [] OTHER -> "next"

\* PollOutcome that raises at a checkpoint whatever the last notification is
PollOutcome_NoCrossCheck(symbol, k, ask, notif) ==
    LET price == StripPrice(ask)
    IN  CASE price = <<>> -> "next"
          [] price # <<>> /\ IsDigit(price) /\ FloatIsZero(price) -> "false"
          [] price # <<>> /\ IsDigit(price) /\ ~FloatIsZero(price) -> "true"
          [] price # <<>> /\ ~IsDigit(price) /\ (k = EarlyCheck \/ k = LoadPolls - 1)
                -> "raise"
          [] OTHER -> "next"

\* one iteration of load_symbol's poll loop on the ask text and the last
\* notification: "true", "false", "raise" or "next"
PollOutcome(symbol, k, ask, notif) ==
    LET price == StripPrice(ask)
    IN  CASE price = <<>> -> "next"
          [] price # <<>> /\ IsDigit(price) /\ FloatIsZero(price) -> "false"
          [] price # <<>> /\ IsDigit(price) /\ ~FloatIsZero(price) -> "true"
          [] price # <<>> /\ ~IsDigit(price) /\ (k = EarlyCheck \/ k = LoadPolls - 1)
                /\ notif = NotFoundMessage(symbol) -> "raise"
          [] OTHER -> "next"

\* a call starts with the locals of locate_stock and credit_locates unset
ResetLocals ==
    /\ status' = ""
    /\ rows' = NoRows
    /\ pps' = NoOffers
    /\ total' = NoOffers
    /\ selected' = ""
    /\ inventory' = NoInventory

\* a call starts with no popup looked for, no probe made, no field read
ResetSession ==
    /\ popup' = ""
    /\ probes' = 0
    /\ seen' = FALSE
    /\ layout' = {}
    /\ noops' = 0
    /\ reads' = <<>>
    /\ quote' = <<>>

\* an exception raised before anything was done
Fail(e) ==
    /\ pc' = "done"
    /\ result' = Raise(e)
    /\ log' = <<>>
    /\ i' = 0
    /\ loadRes' = "None"
    /\ lastAsk' = <<>>
    /\ lastNotif' = NoNotification
    /\ UNCHANGED panel

\* the first lines of load_symbol, run by every caller: the short circuit,
\* or the symbol typed into the lookup field
BeginLoad(symbol) ==
    \E ask \in AskTexts :
       /\ lastAsk' = ask
       /\ lastNotif' = NoNotification
       /\ i' = 0
       /\ result' = NoResult
       /\ IF ShortCircuit(symbol, panel, ask)
          THEN /\ pc' = "after_load"
               /\ loadRes' = "True"
               /\ log' = <<>>
          ELSE /\ pc' = "load_poll"
               /\ loadRes' = "None"
               /\ log' = <<TypeText("trading-order-input-symbol", ToLower(symbol))>>
       /\ UNCHANGED panel

OrderOps == {"market_order", "limit_order", "stop_market_order",
             "stop_limit_order", "range_order"}

\* the symbol load_symbol was called with: the order operations lower it first
LoadArg(c) == IF c.op \in OrderOps THEN ToLower(c.symbol) ELSE c.symbol

\* the last notification message as poll k can find it: the code reads it at
\* the two checkpoints only, and the model draws it there only
NotificationsAt(k) ==
    IF k = EarlyCheck \/ k = LoadPolls - 1 THEN Notifications ELSE {NoNotification}

\* the element a poll reads went stale: no try statement is around the
\* read, the StaleElementReferenceException leaves the loop and the function
Stale ==
    /\ pc' = "done"
    /\ result' = Raise("StaleElementReference")
    /\ i' = 0
    /\ lastAsk' = <<>>
    /\ lastNotif' = NoNotification

\* one poll of the ask field
LoadPoll ==
    /\ pc = "load_poll"
    /\ \/ \E ask \in AskTexts, notif \in NotificationsAt(i) :
            LET out == PollOutcome(LoadArg(call), i, ask, notif)
            IN  /\ lastAsk' = ask
                /\ lastNotif' = notif
                /\ CASE out = "true" ->
                          /\ pc' = "after_load" /\ loadRes' = "True"
                          /\ panel' = <<ToUpper(call.symbol), "(USD)">>
                          /\ UNCHANGED <<i, result>>
                     [] out = "false" ->
                          /\ pc' = "after_load" /\ loadRes' = "False"
                          /\ panel' = <<ToUpper(call.symbol), "(USD)">>
                          /\ UNCHANGED <<i, result>>
                     [] out = "raise" ->
                          /\ pc' = "done" /\ result' = Raise("SymbolNotFound")
                          /\ UNCHANGED <<i, loadRes, panel>>
                     [] out = "next" /\ i + 1 < LoadPolls ->
                          /\ i' = i + 1
                          /\ UNCHANGED <<pc, loadRes, result, panel>>
                     [] out = "next" /\ i + 1 >= LoadPolls ->
                          /\ pc' = "after_load" /\ loadRes' = "None"
                          /\ UNCHANGED <<i, result, panel>>
       \/ Stale /\ UNCHANGED <<loadRes, panel>>
    /\ UNCHANGED <<call, log, now, locateVars, inventory, popup, connVars, dataVars>>

\* load_symbol called by the user
load_symbol ==
    /\ pc = "idle"
    /\ \E symbol \in Symbols :
         /\ call' = [NoCall EXCEPT !.op = "load_symbol", !.symbol = symbol]
         /\ BeginLoad(symbol)
    /\ ResetLocals
    /\ ResetSession
    /\ UNCHANGED now

\* load_symbol's value handed to the user
load_symbol_return ==
    /\ pc = "after_load"
    /\ call.op = "load_symbol"
    /\ pc' = "done"
    /\ result' = Return(loadRes)
    /\ UNCHANGED <<call, loadVars, log, panel, now, locateVars, inventory, popup,
                   connVars, dataVars>>

\* ------------------------------------------------------------------------
\* The order operations
\* ------------------------------------------------------------------------

\* Time.time_between(time1, time2): time1 <= now < time2
Before(a, b) == a[1] < b[1] \/ (a[1] = b[1] /\ a[2] < b[2])

time_between(t, time1, time2) == ~Before(t, time1) /\ Before(t, time2)

\* OutsideMarketHours with the closing time forgotten
OutsideMarketHours_OpenOnly(t) == Before(t, MarketOpen)

\* if not self.time_between((9, 30), (16, 0)): raise
OutsideMarketHours(t) == ~time_between(t, MarketOpen, MarketClose)

\* BadTimeInForce with one more value let through
BadTimeInForce_Lenient(tif) == tif \notin {"DAY", "GTC", "GTX", "IOC"}

\* if time_in_force not in ['DAY', 'GTC', 'GTX']: raise
BadTimeInForce(tif) == tif \notin {"DAY", "GTC", "GTX"}

\* order_direction == Order.SHORT
IsShort(dir) == dir = "short"

\* FormHead with the quantity entered before the two selections
FormHead_QuantityFirst(index, tif, qty) ==
    << Clear("trading-order-input-quantity"),
       TypeNum("trading-order-input-quantity", qty),
       SelectIndex("trading-order-select-type", index),
       SelectLabel("trading-order-select-time", tif) >>

\* order type, time in force and quantity: the fields every kind fills
FormHead(index, tif, qty) ==
    << SelectIndex("trading-order-select-type", index),
       SelectLabel("trading-order-select-time", tif),
       Clear("trading-order-input-quantity"),
       TypeNum("trading-order-input-quantity", qty) >>

\* a price field cleared and filled
PriceField(target, price) == << Clear(target), TypeNum(target, price) >>

\* the directional submit control
Submit(dir) == [a |-> "click", t |-> "trading-order-button", s |-> dir, n |-> 0]

\* load_symbol has returned to its caller: its locals are gone
LoadReturned ==
    /\ i' = 0
    /\ lastAsk' = <<>>
    /\ lastNotif' = NoNotification

\* the arguments of an order call
OrderCall(op, dir, symbol, tif) ==
    [NoCall EXCEPT !.op = op, !.dir = dir, !.symbol = symbol, !.tif = tif, !.qty = 10]

\* LoadBlocksOrder as locate_stock tests it: if not self.load_symbol(symbol)
LoadBlocksOrder_AsLocate(res) == res # "True"

\* self.load_symbol(symbol): the order operations call it as a statement and
\* go on whatever it returned
LoadBlocksOrder(res) == FALSE

\* the order is given up after load_symbol: nothing is entered
Abandon ==
    /\ log' = log
    /\ result' = Return("None")
    /\ popup' = ""

\* the locate popup as the page has it one second after the submit click: it
\* comes up for short orders only
PopupAfter(dir) == IF dir = "short" THEN {"none", "present"} ELSE {""}

\* FilledBefore with the error of the lookup not stopping the form
FilledBefore_All(form, k) == form

\* what was done to the form when the lookup of the element of step k raised
FilledBefore(form, k) == SubSeq(form, 1, k - 1)

\* the order form is being filled and an element is not found: find_element
\* raises NoSuchElementException at a select, a clear or the submit click, the
\* steps before it stay done and the exception leaves the function
FillFails(base) ==
    \E k \in {j \in (Len(log) + 1)..Len(base) : base[j].a \in {"select", "clear", "click"}} :
       /\ log' = FilledBefore(base, k)
       /\ result' = Raise("NoSuchElement")
       /\ popup' = ""

\* after the submit click of a market or limit order: the locate popup of a
\* short order, dismissed if it is there and the click on it goes through
AfterSubmit(base) ==
    \E p \in PopupAfter(call.dir), clicked \in BOOLEAN :
       IF IsShort(call.dir) /\ p = "present" /\ clicked
       THEN /\ log' = Append(base, Click("short-locate-button-cancel"))
            /\ result' = Return("False")
            /\ popup' = "dismissed"
       ELSE /\ log' = base
            /\ result' = Return("True")
            /\ popup' = p

\* after the submit click of a stop-market, stop-limit or range order: the
\* function ends, the popup is not looked for
NoPopupStep(base) ==
    /\ log' = base
    /\ result' = Return("None")
    /\ popup' \in PopupAfter(call.dir)

\* the form filled and submitted, or left where a lookup failed
FillAndSubmit(popupStep, base) ==
    \/ (IF popupStep THEN AfterSubmit(base) ELSE NoPopupStep(base))
    \/ FillFails(base)

market_order ==
    /\ pc = "idle"
    /\ \E dir \in Directions, symbol \in Symbols, tif \in TimeInForce, t \in Times :
         /\ call' = OrderCall("market_order", dir, symbol, tif)
         /\ now' = t
         /\ IF OutsideMarketHours(t) THEN Fail("OutsideMarketHours")
            ELSE IF BadTimeInForce(tif) THEN Fail("InvalidTimeInForce")
            ELSE BeginLoad(ToLower(symbol))
    /\ ResetLocals
    /\ ResetSession

market_order_fill ==
    /\ pc = "after_load"
    /\ call.op = "market_order"
    /\ IF LoadBlocksOrder(loadRes) THEN Abandon
       ELSE FillAndSubmit(TRUE, log \o FormHead(0, call.tif, call.qty) \o <<Submit(call.dir)>>)
    /\ pc' = "done"
    /\ LoadReturned
    /\ UNCHANGED <<call, loadRes, panel, now, locateVars, inventory, connVars, dataVars>>

limit_order ==
    /\ pc = "idle"
    /\ \E dir \in Directions, symbol \in Symbols, tif \in TimeInForce, t \in Times :
         /\ call' = OrderCall("limit_order", dir, symbol, tif)
         /\ now' = t
         /\ IF BadTimeInForce(tif) THEN Fail("InvalidTimeInForce")
            ELSE BeginLoad(ToLower(symbol))
    /\ ResetLocals
    /\ ResetSession

limit_order_fill ==
    /\ pc = "after_load"
    /\ call.op = "limit_order"
    /\ IF LoadBlocksOrder(loadRes) THEN Abandon
       ELSE FillAndSubmit(TRUE, log \o FormHead(1, call.tif, call.qty)
                            \o PriceField("trading-order-input-price", 5)
                            \o <<Submit(call.dir)>>)
    /\ pc' = "done"
    /\ LoadReturned
    /\ UNCHANGED <<call, loadRes, panel, now, locateVars, inventory, connVars, dataVars>>

stop_market_order ==
    /\ pc = "idle"
    /\ \E dir \in Directions, symbol \in Symbols, tif \in TimeInForce, t \in Times :
         /\ call' = OrderCall("stop_market_order", dir, symbol, tif)
         /\ now' = t
         /\ IF OutsideMarketHours(t) THEN Fail("OutsideMarketHours")
            ELSE IF BadTimeInForce(tif) THEN Fail("InvalidTimeInForce")
            ELSE BeginLoad(ToLower(symbol))
    /\ ResetLocals
    /\ ResetSession

stop_market_order_fill ==
    /\ pc = "after_load"
    /\ call.op = "stop_market_order"
    /\ IF LoadBlocksOrder(loadRes) THEN Abandon
       ELSE FillAndSubmit(FALSE, log \o FormHead(2, call.tif, call.qty)
                            \o PriceField("trading-order-input-sprice", 7)
                            \o <<Submit(call.dir)>>)
    /\ pc' = "done"
    /\ LoadReturned
    /\ UNCHANGED <<call, loadRes, panel, now, locateVars, inventory, connVars, dataVars>>

stop_limit_order ==
    /\ pc = "idle"
    /\ \E dir \in Directions, symbol \in Symbols, tif \in TimeInForce, t \in Times :
         /\ call' = OrderCall("stop_limit_order", dir, symbol, tif)
         /\ now' = t
         /\ IF BadTimeInForce(tif) THEN Fail("InvalidTimeInForce")
            ELSE BeginLoad(ToLower(symbol))
    /\ ResetLocals
    /\ ResetSession

stop_limit_order_fill ==
    /\ pc = "after_load"
    /\ call.op = "stop_limit_order"
    /\ IF LoadBlocksOrder(loadRes) THEN Abandon
       ELSE FillAndSubmit(FALSE, log \o FormHead(3, call.tif, call.qty)
                            \o PriceField("trading-order-input-price", 5)
                            \o PriceField("trading-order-input-sprice", 7)
                            \o <<Submit(call.dir)>>)
    /\ pc' = "done"
    /\ LoadReturned
    /\ UNCHANGED <<call, loadRes, panel, now, locateVars, inventory, connVars, dataVars>>

range_order ==
    /\ pc = "idle"
    /\ \E dir \in Directions, symbol \in Symbols, tif \in TimeInForce, t \in Times :
         /\ call' = OrderCall("range_order", dir, symbol, tif)
         /\ now' = t
         /\ IF BadTimeInForce(tif) THEN Fail("InvalidTimeInForce")
            ELSE BeginLoad(ToLower(symbol))
    /\ ResetLocals
    /\ ResetSession

range_order_fill ==
    /\ pc = "after_load"
    /\ call.op = "range_order"
    /\ IF LoadBlocksOrder(loadRes) THEN Abandon
       ELSE FillAndSubmit(FALSE, log \o FormHead(6, call.tif, call.qty)
                            \o PriceField("trading-order-input-price", 5)
                            \o PriceField("trading-order-input-sprice", 7)
                            \o <<Submit(call.dir)>>)
    /\ pc' = "done"
    /\ LoadReturned
    /\ UNCHANGED <<call, loadRes, panel, now, locateVars, inventory, connVars, dataVars>>

\* ------------------------------------------------------------------------
\* locate_stock
\* ------------------------------------------------------------------------

\* NotWholeLots that only refuses less than one lot
NotWholeLots_BelowOneLot(qty) == qty < LotSize

\* share_amount % 100 != 0, quantity % 100 != 0
NotWholeLots(qty) == qty % LotSize # 0

\* EasyToBorrow compared with another spelling of the status
EasyToBorrow_WrongText(text) == text = "Easy To Borrow"

\* .text == 'Easy to borrow'
EasyToBorrow(text) == text = "Easy to borrow"

\* OffersReady that waits for all three prices per share
OffersReady_All(p) ==
    p["PreBorrow"] # None /\ p["SingleUse"] # None /\ p["Locate"] # None

\* the break of the offer poll: one of the three prices per share was read
OffersReady(p) ==
    p["PreBorrow"] # None \/ p["SingleUse"] # None \/ p["Locate"] # None

\* x if x is not None else float('inf')
OrInf(x) == IF x = None THEN Inf ELSE x[1]

\* SelectLocateType with strict comparisons: a tie falls through to Locate
SelectLocateType_Strict(tp, ts, tl) ==
    IF tp < ts /\ tp < tl THEN "PreBorrow"
    ELSE IF ts < tp /\ ts < tl THEN "SingleUse"
    ELSE "Locate"

\* the cheapest of the three totals, the first one on a tie
SelectLocateType(tp, ts, tl) ==
    IF tp <= ts /\ tp <= tl THEN "PreBorrow"
    ELSE IF ts <= tp /\ ts <= tl THEN "SingleUse"
    ELSE "Locate"

\* AcceptLocate with a strict comparison
AcceptLocate_Strict(locate_total, max_price) == locate_total < max_price

\* if locate_total <= max_price: accept, else: decline
AcceptLocate(locate_total, max_price) == locate_total <= max_price

\* OfferClick on the first row of the table, whatever type was selected
OfferClick_FirstRow(type, control) ==
    [a |-> "click", t |-> control, s |-> "PreBorrow", n |-> 0]

\* the accept (span[1]) or decline (span[2]) control of an offer row
OfferClick(type, control) == [a |-> "click", t |-> control, s |-> type, n |-> 0]

locate_stock ==
    /\ pc = "idle"
    /\ \E symbol \in Symbols, qty \in Quantities, maxp \in MaxPrices :
         /\ call' = [NoCall EXCEPT !.op = "locate_stock", !.symbol = symbol,
                                   !.qty = qty, !.maxPrice = maxp]
         /\ UNCHANGED now
         /\ IF NotWholeLots(qty) THEN Fail("InvalidArgument")
            ELSE BeginLoad(symbol)
    /\ ResetLocals
    /\ ResetSession

\* LoadFailed with the value of load_symbol compared to None
LoadFailed_IsNone(res) == res = "None"

\* not self.load_symbol(symbol)
LoadFailed(res) == res # "True"

\* if not self.load_symbol(symbol): return; else the locate tab is filled
locate_begin ==
    /\ pc = "after_load"
    /\ call.op = "locate_stock"
    /\ IF LoadFailed(loadRes)
       THEN /\ pc' = "done"
            /\ result' = Return("None")
            /\ UNCHANGED log
       ELSE /\ pc' = "locate_status"
            /\ log' = log \o << Click("locate-tab-1"),
                                Clear("short-list-input-symbol"),
                                TypeText("short-list-input-symbol", call.symbol),
                                Clear("short-list-input-shares"),
                                TypeNum("short-list-input-shares", call.qty) >>
            /\ UNCHANGED result
    /\ LoadReturned
    /\ UNCHANGED <<call, loadRes, panel, now, locateVars, inventory, popup,
                   connVars, dataVars>>

\* the status poll (while text == '': sleep) has no counter: the polls are
\* told apart modulo StatusPollWrap; then the status is read again
locate_status_poll ==
    /\ pc = "locate_status"
    /\ \/ /\ \E polled \in StatusTexts :
               IF polled = ""
               THEN /\ i' = (i + 1) % StatusPollWrap
                    /\ UNCHANGED <<pc, status, log, result>>
               ELSE \E text \in StatusTexts :
                       /\ status' = text
                       /\ i' = 0
                       /\ IF EasyToBorrow(text)
                          THEN /\ pc' = "done"
                               /\ result' = Data(0, 0)
                               /\ UNCHANGED log
                          ELSE /\ pc' = "locate_offers"
                               /\ log' = Append(log, Click("short-list-button-locate"))
                               /\ UNCHANGED result
          /\ UNCHANGED <<lastAsk, lastNotif>>
       \/ Stale /\ UNCHANGED <<status, log>>
    /\ UNCHANGED <<call, loadRes, panel, now,
                   rows, pps, total, selected, inventory, popup, connVars, dataVars>>

\* after the offer poll: the selection, the accept or decline click on the
\* selected row, the result.  The control is looked up at the click: the row
\* of a price read by this poll is there; a row that showed no price is
\* there or not
LocateFinish(r, p, c) ==
    LET sel == SelectLocateType(OrInf(c["PreBorrow"]), OrInf(c["SingleUse"]),
                                OrInf(c["Locate"]))
        locate_pps == OrInf(p[sel])
        locate_total == OrInf(c[sel])
    IN  /\ selected' = sel
        /\ \E found \in (IF r[sel].st = "none" THEN BOOLEAN ELSE {TRUE}) :
              IF ~found
              THEN /\ result' = Raise("NoSuchElement")
                   /\ UNCHANGED log
              ELSE /\ log' = Append(log, OfferClick(sel,
                                 IF AcceptLocate(locate_total, call.maxPrice)
                                 THEN "accept" ELSE "decline"))
                   /\ result' = Data(locate_pps, locate_total)

\* one poll of the three offer rows, per row the price per share and then the
\* total; the poll that reads a price ends the loop and the call
locate_offer_poll ==
    /\ pc = "locate_offers"
    /\ \E r \in OfferTables :
         LET p == [t \in TypeNames |->
                      IF r[t].st \in {"pps", "full"} THEN Some(r[t].pps) ELSE pps[t]]
             c == [t \in TypeNames |->
                      IF r[t].st = "full" THEN Some(r[t].total) ELSE total[t]]
         IN  /\ pps' = p
             /\ total' = c
             /\ IF OffersReady(p)
                THEN /\ pc' = "done"
                     /\ rows' = r
                     /\ i' = 0
                     /\ LocateFinish(r, p, c)
                ELSE IF i + 1 < OfferPolls
                THEN /\ i' = i + 1
                     /\ UNCHANGED <<pc, rows, result, log, selected>>
                ELSE /\ pc' = "done"
                     /\ result' = Raise("NoLocateOffer")
                     /\ UNCHANGED <<i, rows, log, selected>>
    /\ UNCHANGED <<call, loadRes, lastAsk, lastNotif, panel, now, status, inventory,
                   popup, connVars, dataVars>>

\* ------------------------------------------------------------------------
\* credit_locates
\* ------------------------------------------------------------------------

\* OverLocated with one lot more let through
OverLocated_Lenient(quantity, located_shares) == quantity > located_shares + LotSize

\* if quantity > located_shares: raise
OverLocated(quantity, located_shares) == quantity > located_shares

credit_locates ==
    /\ pc = "idle"
    /\ \E symbol \in Symbols, inv \in Inventories, given \in BOOLEAN :
       \E qty \in IF given THEN Quantities ELSE {0} :
         /\ call' = [NoCall EXCEPT !.op = "credit_locates", !.symbol = symbol,
                                   !.qty = qty, !.qtyGiven = given]
         /\ UNCHANGED now
         /\ status' = ""
         /\ rows' = NoRows
         /\ pps' = NoOffers
         /\ total' = NoOffers
         /\ selected' = ""
         /\ inventory' = inv
         /\ ResetSession
         /\ pc' = "done"
         /\ i' = 0
         /\ loadRes' = "None"
         /\ lastAsk' = <<>>
         /\ lastNotif' = NoNotification
         /\ UNCHANGED panel
         /\ IF ToUpper(symbol) \notin inv.syms
            THEN result' = Raise("NotLocated") /\ log' = <<>>
            ELSE IF given /\ NotWholeLots(qty)
            THEN result' = Raise("InvalidArgument") /\ log' = <<>>
            ELSE IF given /\ OverLocated(qty, inv.shares)
            THEN result' = Raise("InvalidArgument") /\ log' = <<>>
            ELSE /\ result' = Return("None")
                 /\ log' = (IF given
                            THEN << Clear("inv-SingleUse-sell-qty"),
                                    TypeNum("inv-SingleUse-sell-qty", qty) >>
                            ELSE <<>>)
                           \o << Click("inv-SingleUse-sell") >>

\* ------------------------------------------------------------------------
\* The session: conn and exit
\* ------------------------------------------------------------------------

\* login waits for the layout with _dom_fully_loaded(150)
LoginProbes == 150

\* conn waits for the layout after the reload with _dom_fully_loaded(150)
ReloadProbes == 150

\* the h2 texts of the portfolio container as a probe can find them
Headings == { {}, {"Login"}, {"Portfolio"}, {"Portfolio", "Active Orders"} }

\* the login page as conn can find it: no form, the login field without the
\* password field, both fields
LoginForms == {"none", "login", "full"}

\* LayoutLoaded with the list of texts compared to the one heading
LayoutLoaded_OnlyHeading(texts) == texts = {"Portfolio"}

\* one iteration of _dom_fully_loaded: 'Portfolio' in text_elements
LayoutLoaded(texts) == "Portfolio" \in texts

\* driver.get(TZ_HOME_URL)
Get == [a |-> "get", t |-> "https://standard.tradezeroweb.us/", s |-> "", n |-> 0]

\* self.Watchlist.restore()
Restore == [a |-> "restore", t |-> "Watchlist", s |-> "", n |-> 0]

\* self.Account.hide_attributes()
Hide == [a |-> "hide_attributes", t |-> "Account", s |-> "", n |-> 0]

\* if self.hide_attributes: self.Account.hide_attributes()
HideSteps(hide) == IF hide THEN <<Hide>> ELSE <<>>

\* Reconnected without the watchlist restored
Reconnected_NoRestore(hide) == HideSteps(hide)

\* the reload path once the layout is there: attributes hidden, watchlist
\* restored
Reconnected(hide) == HideSteps(hide) \o <<Restore>>

\* conn up to the wait of its login or reload path: the single probe, then
\* the login form looked up; a field that is missing raises
\* NoSuchElementException, which sends conn to the reload
conn ==
    /\ pc = "idle"
    /\ \E hide \in BOOLEAN, h \in Headings, form \in LoginForms :
         /\ call' = [NoCall EXCEPT !.op = "conn", !.hide = hide]
         /\ layout' = h
         /\ probes' = 1
         /\ seen' = LayoutLoaded(h)
         /\ IF LayoutLoaded(h)
            THEN /\ pc' = "done"
                 /\ result' = Return("True")
                 /\ log' = <<>>
                 /\ UNCHANGED noops
            ELSE /\ result' = NoResult
                 /\ noops' = 0
                 /\ CASE form = "none" ->
                           /\ pc' = "reload_wait"
                           /\ log' = <<Get>>
                      [] form = "login" ->
                           /\ pc' = "reload_wait"
                           /\ log' = <<TypeText("login", "user_name"), Get>>
                      [] form = "full" ->
                           /\ pc' = "login_wait"
                           /\ log' = <<TypeText("login", "user_name"),
                                       TypeText("password", "password")>>
    /\ i' = 0
    /\ loadRes' = "None"
    /\ lastAsk' = <<>>
    /\ lastNotif' = NoNotification
    /\ popup' = ""
    /\ ResetLocals
    /\ UNCHANGED <<panel, now, dataVars>>

\* login from its wait on: one probe of _dom_fully_loaded(150), whose value
\* login does not test; after the last probe the attributes are hidden, the
\* order type is set to index 1 (NoSuchElementException if the select is not
\* there), the page is loaded again, and conn restores the watchlist
login_wait ==
    /\ pc = "login_wait"
    /\ \/ Stale /\ UNCHANGED <<layout, probes, seen, log>>
       \/ /\ \E h \in Headings :
               /\ layout' = h
               /\ probes' = (IF probes < MaxProbes THEN probes + 1 ELSE probes)
               /\ seen' = (seen \/ LayoutLoaded(h))
               /\ IF ~LayoutLoaded(h) /\ i + 1 < LoginProbes
                  THEN /\ i' = i + 1
                       /\ UNCHANGED <<pc, log, result>>
                  ELSE \E found \in BOOLEAN :
                          /\ i' = 0
                          /\ IF found
                             THEN /\ log' = log \o HideSteps(call.hide)
                                            \o << SelectIndex("trading-order-select-type", 1),
                                                  Get, Restore >>
                                  /\ pc' = "done"
                                  /\ result' = Return("True")
                             ELSE /\ log' = log \o HideSteps(call.hide) \o <<Get>>
                                  /\ pc' = "reload_wait"
                                  /\ UNCHANGED result
          /\ UNCHANGED <<lastAsk, lastNotif>>
    /\ UNCHANGED <<call, loadRes, panel, now, locateVars,
                   inventory, popup, noops, dataVars>>

\* the reload path: one probe of _dom_fully_loaded(150); the layout found
\* ends conn with True, the last probe without it with the Exception
reload_wait ==
    /\ pc = "reload_wait"
    /\ \/ Stale /\ UNCHANGED <<layout, probes, seen, log>>
       \/ /\ \E h \in Headings :
               /\ layout' = h
               /\ probes' = (IF probes < MaxProbes THEN probes + 1 ELSE probes)
               /\ seen' = (seen \/ LayoutLoaded(h))
               /\ IF LayoutLoaded(h)
                  THEN /\ pc' = "done"
                       /\ log' = log \o Reconnected(call.hide)
                       /\ result' = Return("True")
                       /\ i' = 0
                  ELSE IF i + 1 < ReloadProbes
                  THEN /\ i' = i + 1
                       /\ UNCHANGED <<pc, log, result>>
                  ELSE /\ pc' = "done"
                       /\ result' = Raise("ReconnectExhausted")
                       /\ i' = 0
                       /\ UNCHANGED log
          /\ UNCHANGED <<lastAsk, lastNotif>>
    /\ UNCHANGED <<call, loadRes, panel, now, locateVars,
                   inventory, popup, noops, dataVars>>

\* what driver.close() can do: close the window, raise a WebDriverException
\* (the window or the session is gone), raise an error of another class (the
\* driver process does not answer)
CloseOutcomes == {"closed", "WebDriverException", "ConnectionError"}

\* except WebDriverException: pass
Swallowed(e) == e = "WebDriverException"

\* driver.close() / driver.quit()
Close == [a |-> "close", t |-> "driver", s |-> "", n |-> 0]

Quit == [a |-> "quit", t |-> "driver", s |-> "", n |-> 0]

exit ==
    /\ pc = "idle"
    /\ \E out \in CloseOutcomes :
         /\ call' = [NoCall EXCEPT !.op = "exit"]
         /\ IF out = "closed" \/ Swallowed(out)
            THEN /\ log' = <<Close, Quit>>
                 /\ result' = Return("None")
            ELSE /\ log' = <<Close>>
                 /\ result' = Raise(out)
    /\ pc' = "done"
    /\ i' = 0
    /\ loadRes' = "None"
    /\ lastAsk' = <<>>
    /\ lastNotif' = NoNotification
    /\ ResetLocals
    /\ ResetSession
    /\ UNCHANGED <<panel, now>>

\* ------------------------------------------------------------------------
\* data
\* ------------------------------------------------------------------------

\* element_ids, in the order data reads them
element_ids == << "trading-order-open", "trading-order-high", "trading-order-low",
                  "trading-order-close", "trading-order-vol", "trading-order-p",
                  "trading-order-ask", "trading-order-bid" >>

\* what a quote field can show: zero, or a value with a thousands separator;
\* the ask field also nothing
FieldZero == <<"0", ".", "0", "0">>

FieldValue == <<"1", ",", "2", "3", "4", ".", "5", "0">>

\* the eight texts the panel can show, one per element of element_ids: open,
\* last and bid zero or not, the other prices zero, the ask one of its three
FieldTexts ==
    { [k \in 1..8 |-> IF k = 7 THEN ask ELSE IF k \in up THEN FieldValue ELSE FieldZero] :
        up \in SUBSET {1, 6, 8}, ask \in {<<>>, FieldZero, FieldValue} }

\* float() accepts the text: digits with at most one '.', a digit at least
IsFloat(text) ==
    /\ \E k \in 1..Len(text) : text[k] \in Digits
    /\ \A k \in 1..Len(text) : text[k] \in Digits \cup {"."}
    /\ Len(SelectSeq(text, LAMBDA c : c = ".")) <= 1

\* the value of a digit
DigitValue(c) == CHOOSE n \in 0..9 : <<"0", "1", "2", "3", "4", "5", "6", "7", "8", "9">>[n + 1] = c

\* the number a string of digits writes
RECURSIVE Number(_)
Number(digits) ==
    IF digits = <<>> THEN 0
    ELSE 10 * Number(SubSeq(digits, 1, Len(digits) - 1)) + DigitValue(digits[Len(digits)])

\* float(val.replace(',', '')) of a text with two decimals, in hundredths
ToFloat(text) == Number(Remove(Remove(text, ","), "."))

\* Data(0.0, 0.0, 0.0, 0.0, 0.0, 0.0, 0.0, 0.0)
ZeroQuote == [k \in 1..8 |-> 0]

\* ClosedQuote with the value of load_symbol tested for falsehood
ClosedQuote_Falsy(res) == res # "True"

\* if self.load_symbol(symbol) is False
ClosedQuote(res) == res = "False"

\* data called by the user
data ==
    /\ pc = "idle"
    /\ \E symbol \in Symbols :
         /\ call' = [NoCall EXCEPT !.op = "data", !.symbol = symbol]
         /\ BeginLoad(symbol)
    /\ ResetLocals
    /\ ResetSession
    /\ UNCHANGED now

\* data after load_symbol: the zero quote, or the eight fields read in the
\* order of element_ids, each through float(); a text float() rejects raises
\* ValueError at that field
data_return ==
    /\ pc = "after_load"
    /\ call.op = "data"
    /\ IF ClosedQuote(loadRes)
       THEN /\ reads' = <<>>
            /\ quote' = ZeroQuote
            /\ result' = Return("Quote")
       ELSE \E texts \in FieldTexts :
               LET bad == {k \in 1..8 : ~IsFloat(Remove(texts[k], ","))}
                   last == IF bad = {} THEN 8
                           ELSE CHOOSE k \in bad : \A j \in bad : k <= j
               IN  /\ reads' = [k \in 1..last |-> [id |-> element_ids[k], text |-> texts[k]]]
                   /\ IF bad = {}
                      THEN /\ quote' = [k \in 1..8 |-> ToFloat(texts[k])]
                           /\ result' = Return("Quote")
                      ELSE /\ quote' = <<>>
                           /\ result' = Raise("ValueError")
    /\ pc' = "done"
    /\ LoadReturned
    /\ UNCHANGED <<call, loadRes, log, panel, now, locateVars, inventory, popup,
                   connVars>>

\* ------------------------------------------------------------------------
\* The program
\* ------------------------------------------------------------------------

\* the caller takes the outcome; the page stays as the call left it
finish ==
    /\ pc = "done"
    /\ pc' = "idle"
    /\ call' = NoCall
    /\ i' = 0
    /\ loadRes' = "None"
    /\ log' = <<>>
    /\ result' = NoResult
    /\ lastAsk' = <<>>
    /\ lastNotif' = NoNotification
    /\ now' = MarketOpen
    /\ ResetLocals
    /\ popup' = ""
    /\ probes' = 0
    /\ seen' = FALSE
    /\ layout' = {}
    /\ noops' = IF call.op = "conn" /\ probes = 1 /\ result = Return("True")
                 THEN (IF noops < MaxNoops THEN noops + 1 ELSE noops)
                 ELSE 0
    /\ reads' = <<>>
    /\ quote' = <<>>
    /\ UNCHANGED panel

Init ==
    /\ pc = "idle"
    /\ call = NoCall
    /\ i = 0
    /\ loadRes = "None"
    /\ log = <<>>
    /\ result = NoResult
    /\ panel = <<>>
    /\ lastAsk = <<>>
    /\ lastNotif = NoNotification
    /\ now = MarketOpen
    /\ status = ""
    /\ rows = NoRows
    /\ pps = NoOffers
    /\ total = NoOffers
    /\ selected = ""
    /\ inventory = NoInventory
    /\ popup = ""
    /\ probes = 0
    /\ seen = FALSE
    /\ layout = {}
    /\ noops = 0
    /\ reads = <<>>
    /\ quote = <<>>

Next ==
    \/ conn
    \/ login_wait
    \/ reload_wait
    \/ exit
    \/ data
    \/ data_return
    \/ load_symbol
    \/ LoadPoll
    \/ load_symbol_return
    \/ market_order
    \/ market_order_fill
    \/ limit_order
    \/ limit_order_fill
    \/ stop_market_order
    \/ stop_market_order_fill
    \/ stop_limit_order
    \/ stop_limit_order_fill
    \/ range_order
    \/ range_order_fill
    \/ locate_stock
    \/ locate_begin
    \/ locate_status_poll
    \/ locate_offer_poll
    \/ credit_locates
    \/ finish

Spec == Init /\ [][Next]_vars

\* ------------------------------------------------------------------------
\* Vocabulary of the properties
\* ------------------------------------------------------------------------

Done(op) == pc = "done" /\ call.op = op

Raised(e) == result.kind = "raise" /\ result.val = e

Returned(v) == result.kind = "return" /\ result.val = v

\* the positions of the log that hold a click on one of the targets
ClicksOn(targets) ==
    {k \in 1..Len(log) : log[k].a = "click" /\ log[k].t \in targets}

\* a clock reading outside the regular session 09:30-16:00
OutsideSession(t) ==
    \/ t[1] < 9 \/ (t[1] = 9 /\ t[2] < 30)
    \/ t[1] > 16 \/ (t[1] = 16 /\ t[2] > 0)

\* an ask text that is a number: digits with '.' and ',' separators
NumericAsk(text) ==
    /\ \E k \in 1..Len(text) : text[k] \in Digits
    /\ \A k \in 1..Len(text) : text[k] \in Digits \cup {".", ","}

\* the value of a numeric ask text is above zero
PositiveAsk(text) == \E k \in 1..Len(text) : text[k] \in Digits \ {"0"}

\* the spelling of a symbol in the quote panel and in the notifications
PanelName(symbol) ==
    CASE symbol \in {"aapl", "Aapl", "AAPL"} -> "AAPL"
      [] symbol \in {"amd", "Amd", "AMD"} -> "AMD"
      [] OTHER -> symbol

\* the quote panel's active symbol is the symbol, whatever the case
PanelShows(symbol) ==
    \E shown \in {"AAPL", "AMD"} :
       /\ panel = <<shown, "(USD)">>
       /\ \/ (shown = "AAPL" /\ symbol \in {"aapl", "Aapl", "AAPL"})
          \/ (shown = "AMD" /\ symbol \in {"amd", "Amd", "AMD"})

\* the total of an offer row; an offer without price and total is not there
Present(type) == rows[type].st = "full"

\* offer a costs no more than offer b, an offer that is not there being
\* dearer than every offer that is
NoDearer(a, b) ==
    \/ ~Present(b)
    \/ (Present(a) /\ rows[a].total <= rows[b].total)

\* a comes before b in the order PreBorrow, SingleUse, Locate
Earlier(a, b) ==
    \E m, n \in 1..3 : LocateTypes[m] = a /\ LocateTypes[n] = b /\ m < n

\* locate_stock went through the selection
Negotiated == Done("locate_stock") /\ selected # ""

\* ------------------------------------------------------------------------
\* C1
\* ------------------------------------------------------------------------

\* C1: a market order or stop-market order requested outside 09:30-16:00
\* fails with OutsideMarketHours before anything is done to the DOM (the log
\* of the call is empty: no symbol lookup, no field change, no submit
\* click), and a limit, stop-limit or range order never fails with
\* OutsideMarketHours.
C1_MarketHoursGate ==
    /\ (call.op \in {"market_order", "stop_market_order"} /\ OutsideSession(now))
          => (pc = "done" /\ Raised("OutsideMarketHours") /\ log = <<>>)
    /\ (call.op \in {"limit_order", "stop_limit_order", "range_order"})
          => ~Raised("OutsideMarketHours")

\* a market order at 16:01 was rejected
C1_Witness ==
    /\ Done("market_order")
    /\ now = <<16, 1>>
    /\ Raised("OutsideMarketHours")

\* ------------------------------------------------------------------------
\* C2
\* ------------------------------------------------------------------------

\* C2 as stated: for every quantity not divisible by 100, locate_stock and
\* credit_locates fail with InvalidArgument and do nothing to the UI,
\* whatever the locate inventory holds.
C2_AsStated ==
    (call.op \in {"locate_stock", "credit_locates"} /\ call.qtyGiven
        /\ call.qty % 100 # 0)
       => (pc = "done" /\ Raised("InvalidArgument") /\ log = <<>>)

\* C2, amended: for every quantity not divisible by 100, locate_stock fails
\* with InvalidArgument; credit_locates fails with InvalidArgument when the
\* symbol is in the locate inventory and with the not-located error when it
\* is not; in every case nothing is done to the UI.
C2_LotCheck ==
    (call.op \in {"locate_stock", "credit_locates"} /\ call.qtyGiven
        /\ call.qty % 100 # 0)
       => /\ pc = "done"
          /\ log = <<>>
          /\ IF call.op = "credit_locates"
                /\ ~(\E s \in inventory.syms : PanelName(s) = PanelName(call.symbol))
             THEN Raised("NotLocated")
             ELSE Raised("InvalidArgument")

\* credit_locates refused 150 shares of a located symbol
C2_Witness ==
    /\ Done("credit_locates")
    /\ call.qty = 150
    /\ inventory.syms # {}
    /\ Raised("InvalidArgument")
    /\ log = <<>>

\* ------------------------------------------------------------------------
\* C3
\* ------------------------------------------------------------------------

\* C3: once the symbol is typed, the poll loop goes on only after polls
\* whose ask is not a number, and the poll that reads a number ends it:
\* with True if the number is above zero, with False if it is zero,
\* whatever the number of polls before it.
C3_FirstNumericPoll ==
    /\ (pc = "load_poll" /\ i > 0) => ~NumericAsk(lastAsk)
    /\ (pc = "after_load" /\ log # <<>> /\ NumericAsk(lastAsk))
          => (loadRes = IF PositiveAsk(lastAsk) THEN "True" ELSE "False")
    /\ (pc = "after_load" /\ log # <<>> /\ loadRes \in {"True", "False"})
          => NumericAsk(lastAsk)
    /\ Raised("SymbolNotFound") => ~NumericAsk(lastAsk)

\* the last poll of the budget read a price after 299 polls that did not
C3_Witness ==
    /\ pc = "after_load"
    /\ i = LoadPolls - 1
    /\ lastAsk = <<"1", ",", "2", "3", "4", ".", "5", "0">>
    /\ loadRes = "True"

\* ------------------------------------------------------------------------
\* C4
\* ------------------------------------------------------------------------

\* C4: load_symbol never returns normally with a result other than Ready
\* (True) or MarketClosed (False); when the 300 polls end without a
\* terminal outcome it fails with Timeout.
C4_TimeoutSurfaced ==
    (Done("load_symbol") /\ result.kind = "return")
       => result.val \in {"True", "False"}

\* ------------------------------------------------------------------------
\* C5
\* ------------------------------------------------------------------------

\* C5: the call does not go on after poll 15, nor return after poll 299,
\* when the last notification at that poll is 'Symbol not found' for the
\* requested symbol and the ask shows no terminal value (the empty string
\* included): it fails with SymbolNotFound.
C5_CheckpointsAlwaysChecked ==
    /\ (pc = "load_poll" /\ i = EarlyCheck + 1)
          => lastNotif # <<"Symbol not found: ", PanelName(call.symbol)>>
    /\ (pc = "after_load" /\ log # <<>> /\ loadRes = "None")
          => lastNotif # <<"Symbol not found: ", PanelName(call.symbol)>>

\* ------------------------------------------------------------------------
\* C6
\* ------------------------------------------------------------------------

\* C6: load_symbol returns Ready with nothing typed and no poll exactly
\* when the requested symbol is, whatever its case, the panel's active
\* symbol and the ask shown is a positive number; in every other case the
\* lowered symbol is typed into the lookup field before the first poll.
C6_ShortCircuit ==
    /\ (pc = "after_load" /\ log = <<>>)
          => /\ loadRes = "True"
             /\ i = 0
             /\ PanelShows(call.symbol)
             /\ NumericAsk(lastAsk) /\ PositiveAsk(lastAsk)
    /\ (pc = "load_poll" /\ i = 0)
          => ~(PanelShows(call.symbol) /\ NumericAsk(lastAsk) /\ PositiveAsk(lastAsk))
    /\ pc \in {"load_poll", "after_load"} /\ log # <<>>
          => /\ log[1].a = "type"
             /\ log[1].t = "trading-order-input-symbol"
             /\ PanelName(log[1].s) = PanelName(call.symbol)

\* load_symbol('aapl') with AAPL active and a price shown: nothing typed
C6_Witness ==
    /\ pc = "after_load"
    /\ call.op = "load_symbol"
    /\ call.symbol = "aapl"
    /\ panel = <<"AAPL", "(USD)">>
    /\ log = <<>>
    /\ loadRes = "True"

\* ------------------------------------------------------------------------
\* C7
\* ------------------------------------------------------------------------

\* C7: when at least one offer is there (price and total read), the
\* selected offer type is there, no offer costs less than it, and every
\* offer type before it in the order PreBorrow, SingleUse, Locate costs
\* more.
C7_CheapestFirst ==
    (Negotiated /\ \E t \in TypeNames : Present(t))
       => /\ Present(selected)
          /\ \A t \in TypeNames : NoDearer(selected, t)
          /\ \A t \in TypeNames : Earlier(t, selected) => ~NoDearer(t, selected)

\* totals PreBorrow 2, SingleUse 1, Locate 1: SingleUse selected
C7_Witness ==
    /\ Negotiated
    /\ \A t \in TypeNames : Present(t)
    /\ rows["PreBorrow"].total = 2
    /\ rows["SingleUse"].total = 1
    /\ rows["Locate"].total = 1
    /\ selected = "SingleUse"

\* ------------------------------------------------------------------------
\* C8
\* ------------------------------------------------------------------------

C9_EasyToBorrow ==
    (call.op = "locate_stock" /\ status = "Easy to borrow")
       => /\ pc = "done"
          /\ result = [kind |-> "return", val |-> "Data", pps |-> 0, total |-> 0]
          /\ ClicksOn({"short-list-button-locate", "accept", "decline"}) = {}

\* an easy-to-borrow symbol with max_price 0
C9_Witness ==
    /\ Done("locate_stock")
    /\ status = "Easy to borrow"
    /\ call.maxPrice = 0
    /\ result.val = "Data"
    /\ result.total = 0

\* ------------------------------------------------------------------------
\* C10
\* ------------------------------------------------------------------------

SubmitClicks ==
    {k \in 1..Len(log) : log[k].a = "click" /\ log[k].t = "trading-order-button"}

\* an order operation has ended
OrderDone == pc = "done" /\ call.op \in OrderOps

\* the fixed position of each order kind in the order-type dropdown
KindIndex(op) ==
    CASE op = "market_order" -> 0
      [] op = "limit_order" -> 1
      [] op = "stop_market_order" -> 2
      [] op = "stop_limit_order" -> 3
      [] op = "range_order" -> 6

\* the price fields of each order kind, in the order they are entered
KindPrices(op) ==
    CASE op = "market_order" -> <<>>
      [] op = "limit_order" -> <<"trading-order-input-price">>
      [] op = "stop_market_order" -> <<"trading-order-input-sprice">>
      [] op = "stop_limit_order" ->
            <<"trading-order-input-price", "trading-order-input-sprice">>
      [] op = "range_order" ->
            <<"trading-order-input-price", "trading-order-input-sprice">>

\* the positions of the log that hold a selection in a dropdown
Selections == {k \in 1..Len(log) : log[k].a = "select"}

\* the quote fields in the order open, high, low, close, volume, last, ask, bid
QuoteFields == << "trading-order-open", "trading-order-high", "trading-order-low",
                  "trading-order-close", "trading-order-vol", "trading-order-p",
                  "trading-order-ask", "trading-order-bid" >>

\* the value, in hundredths, of the texts a quote field shows in the model
Shown(text) ==
    CASE text = <<"0", ".", "0", "0">> -> 0
      [] text = <<"1", ",", "2", "3", "4", ".", "5", "0">> -> 123450

\* a quote was returned and its eight fields are zero
AllZero == Len(quote) = 8 /\ \A k \in 1..8 : quote[k] = 0

\* ------------------------------------------------------------------------
\* C11
\* ------------------------------------------------------------------------

\* C11: a short order whose submit control was clicked never raises; it
\* returns False when the locate popup was there and was dismissed, and True
\* when no popup was there.
C11_ShortPopup ==
    (OrderDone /\ call.dir = "short" /\ SubmitClicks # {})
       => /\ result.kind = "return"
          /\ popup = "dismissed" => result.val = "False"
          /\ popup = "none" => result.val = "True"

\* ------------------------------------------------------------------------
\* C12
\* ------------------------------------------------------------------------

\* C12: an order of any kind whose submission completed (the submit control
\* clicked, no locate popup dismissed) returns the success signal True.
C12_SuccessSignal ==
    (OrderDone /\ result.kind = "return" /\ SubmitClicks # {} /\ popup # "dismissed")
       => result.val = "True"

\* ------------------------------------------------------------------------
\* C13
\* ------------------------------------------------------------------------

\* C13 as stated: an order of any kind with a time-in-force other than DAY,
\* GTC, GTX fails with InvalidTimeInForce and nothing was done to the DOM.
C13_AsStated ==
    (OrderDone /\ call.tif \notin {"DAY", "GTC", "GTX"})
       => /\ Raised("InvalidTimeInForce")
          /\ log = <<>>

\* C13: an order of any kind with a time-in-force other than DAY, GTC, GTX
\* fails before the symbol is loaded and before any form field is changed
\* (the log is empty, the submit control not clicked); the failure is
\* InvalidTimeInForce, except for a market or stop-market order outside
\* 09:30-16:00, which fails with OutsideMarketHours first.
C13_TimeInForce ==
    (OrderDone /\ call.tif \notin {"DAY", "GTC", "GTX"})
       => /\ result.kind = "raise"
          /\ log = <<>>
          /\ SubmitClicks = {}
          /\ IF call.op \in {"market_order", "stop_market_order"} /\ OutsideSession(now)
             THEN result.val = "OutsideMarketHours"
             ELSE result.val = "InvalidTimeInForce"

\* a market order inside market hours with the time-in-force IOC
C13_Witness ==
    /\ pc = "done"
    /\ call.op = "market_order"
    /\ call.tif = "IOC"
    /\ ~OutsideSession(now)
    /\ Raised("InvalidTimeInForce")

\* ------------------------------------------------------------------------
\* C14
\* ------------------------------------------------------------------------

\* C14: in every order that returns, the log is: the symbol typed by
\* load_symbol (or nothing when it was the active symbol), the order type
\* selected at the kind's index, the time-in-force selected by label, the
\* quantity cleared and entered, the kind's price fields cleared and entered
\* in their order, and then the one click on the submit control of the
\* direction, followed at most by the dismissal of the locate popup.
C14_ActionOrder ==
    (OrderDone /\ result.kind = "return")
       => /\ Selections # {}
          /\ LET s == CHOOSE k \in Selections : \A j \in Selections : k <= j
                 prices == KindPrices(call.op)
                 n == Len(prices)
                 sub == s + 4 + 2 * n
             IN  /\ s \in {1, 2}
                 /\ s = 2 => /\ log[1].a = "type"
                             /\ log[1].t = "trading-order-input-symbol"
                 /\ Len(log) \in {sub, sub + 1}
                 /\ log[s].t = "trading-order-select-type"
                 /\ log[s].n = KindIndex(call.op)
                 /\ log[s + 1].a = "select"
                 /\ log[s + 1].t = "trading-order-select-time"
                 /\ log[s + 1].s = call.tif
                 /\ log[s + 2].a = "clear"
                 /\ log[s + 2].t = "trading-order-input-quantity"
                 /\ log[s + 3].a = "type"
                 /\ log[s + 3].t = "trading-order-input-quantity"
                 /\ log[s + 3].n = call.qty
                 /\ \A j \in 1..n :
                       /\ log[s + 2 + 2 * j].a = "clear"
                       /\ log[s + 2 + 2 * j].t = prices[j]
                       /\ log[s + 3 + 2 * j].a = "type"
                       /\ log[s + 3 + 2 * j].t = prices[j]
                 /\ SubmitClicks = {sub}
                 /\ log[sub].s = call.dir
                 /\ Len(log) = sub + 1 => /\ log[sub + 1].a = "click"
                                          /\ log[sub + 1].t = "short-locate-button-cancel"

\* a stop-limit order that typed the symbol, filled both prices and submitted
C14_Witness ==
    /\ pc = "done"
    /\ call.op = "stop_limit_order"
    /\ result.kind = "return"
    /\ Len(log) = 10
    /\ log[1].t = "trading-order-input-symbol"
    /\ log[10].t = "trading-order-button"

\* ------------------------------------------------------------------------
\* C15
\* ------------------------------------------------------------------------

\* C15: when load_symbol returned False (market closed) to an order
\* operation, the operation still returns with the order type selected, the
\* quantity entered and the submit control clicked once (an element of the
\* form that is not found apart: the operation then ends with that error).
C15_MarketClosedTolerated ==
    (OrderDone /\ loadRes = "False" /\ ~Raised("NoSuchElement"))
       => /\ result.kind = "return"
          /\ Cardinality(SubmitClicks) = 1
          /\ \E k \in 1..Len(log) : log[k].t = "trading-order-select-type"
          /\ \E k \in 1..Len(log) : log[k].t = "trading-order-input-quantity"

\* a limit order submitted on a closed market
C15_Witness ==
    /\ pc = "done"
    /\ call.op = "limit_order"
    /\ loadRes = "False"
    /\ SubmitClicks # {}

\* ------------------------------------------------------------------------
\* C16
\* ------------------------------------------------------------------------

\* C16: a call of conn whose probe finds the authenticated layout ends at
\* once: one probe, the value True, no login, no reload, no watchlist restore
\* (nothing is done to the page).  This holds of every call, so of the second
\* of two calls in a row.
C16_ProbeOnly ==
    [][ (pc = "idle" /\ call'.op = "conn" /\ "Portfolio" \in layout')
           => /\ pc' = "done"
              /\ result' = [kind |-> "return", val |-> "True", pps |-> 0, total |-> 0]
              /\ probes' = 1
              /\ log' = <<>> ]_vars

\* the second of two calls in a row that found the layout at their probe
C16_Witness ==
    /\ pc = "done"
    /\ call.op = "conn"
    /\ noops >= 1
    /\ "Portfolio" \in layout
    /\ probes = 1
    /\ result.val = "True"
    /\ log = <<>>

\* ------------------------------------------------------------------------
\* C17
\* ------------------------------------------------------------------------

\* C17: conn returns True only when one of its probes has found the
\* authenticated layout; when none has, conn fails with ReconnectExhausted
\* (a call that a stale element ended apart).
C17_ConnectedOnlyWhenSeen ==
    (pc = "done" /\ call.op = "conn" /\ ~Raised("StaleElementReference"))
       => /\ result.val = "True" => seen
          /\ ~seen => Raised("ReconnectExhausted")

\* ------------------------------------------------------------------------
\* C18
\* ------------------------------------------------------------------------

\* C18: a call of conn that returns True by the login path or by the reload
\* path (not at its first probe) has restored the watchlist, once, as the
\* last thing it did.
C18_WatchlistRestored ==
    (pc = "done" /\ call.op = "conn" /\ result.val = "True" /\ ~(probes = 1 /\ seen))
       => /\ log # <<>>
          /\ log[Len(log)].a = "restore"
          /\ Cardinality({k \in 1..Len(log) : log[k].a = "restore"}) = 1

\* a reconnection by the reload path with the attributes hidden
C18_Witness ==
    /\ pc = "done"
    /\ call.op = "conn"
    /\ call.hide
    /\ result.val = "True"
    /\ Len(log) = 3
    /\ log[1].a = "get"
    /\ log[3].a = "restore"

\* ------------------------------------------------------------------------
\* C19
\* ------------------------------------------------------------------------

\* C19: exit always calls quit on the driver and never raises, whatever the
\* window close did.
C19_AlwaysQuit ==
    (pc = "done" /\ call.op = "exit")
       => /\ result.kind = "return"
          /\ \E k \in 1..Len(log) : log[k].a = "quit"

\* ------------------------------------------------------------------------
\* C20
\* ------------------------------------------------------------------------

\* C20 as stated: the quote data returns is all zero exactly when
\* load_symbol returned False, and then no field was read; otherwise it is
\* the eight values read, in the order open, high, low, close, volume, last,
\* ask, bid.
C20_AsStated ==
    (pc = "done" /\ call.op = "data" /\ result.kind = "return")
       => /\ AllZero <=> loadRes = "False"
          /\ loadRes = "False" => reads = <<>>
          /\ loadRes # "False" =>
                /\ Len(reads) = 8
                /\ \A k \in 1..8 : /\ reads[k].id = QuoteFields[k]
                                   /\ quote[k] = Shown(reads[k].text)

\* C20: data returns the zero quote without reading a field exactly when
\* load_symbol returned False; in every other case in which it returns, it
\* has read the eight fields in the order open, high, low, close, volume,
\* last, ask, bid and returns their values in that order (all zero when the
\* panel shows zero in the eight fields).
C20_Quote ==
    (pc = "done" /\ call.op = "data" /\ result.kind = "return")
       => /\ reads = <<>> <=> loadRes = "False"
          /\ loadRes = "False" => AllZero
          /\ loadRes # "False" =>
                /\ Len(reads) = 8
                /\ Len(quote) = 8
                /\ \A k \in 1..8 : /\ reads[k].id = QuoteFields[k]
                                   /\ quote[k] = Shown(reads[k].text)

\* the zero quote of a closed market
C20_Witness ==
    /\ pc = "done"
    /\ call.op = "data"
    /\ loadRes = "False"
    /\ AllZero
    /\ reads = <<>>

\* ------------------------------------------------------------------------
\* Vocabulary of the properties on credits, loops and failures
\* ------------------------------------------------------------------------

\* the positions of the log that change the target: a click, a clear, a text
\* or a number typed
Touches(target) == {k \in 1..Len(log) : log[k].t = target}

\* the symbol is in the locate inventory credit_locates read
Located(symbol) == PanelName(symbol) \in inventory.syms

\* ------------------------------------------------------------------------
\* C21
\* ------------------------------------------------------------------------

\* C21: credit_locates fails, and the credit (sell) button is not clicked,
\* when the symbol is not in the locate inventory, when the quantity given
\* is not a multiple of 100, or when it is above the located shares; a call
\* that passes the three tests clicks the button once, and with the quantity
\* omitted the click is all it does: the quantity field is not written.
C21_CreditGuards ==
    Done("credit_locates")
       => LET refused == \/ ~Located(call.symbol)
                         \/ (call.qtyGiven /\ call.qty % 100 # 0)
                         \/ (call.qtyGiven /\ call.qty > inventory.shares)
          IN  /\ refused => /\ result.kind = "raise"
                            /\ Touches("inv-SingleUse-sell") = {}
                            /\ log = <<>>
              /\ ~refused => /\ result.kind = "return"
                             /\ Cardinality(Touches("inv-SingleUse-sell")) = 1
                             /\ log[Len(log)].a = "click"
                             /\ log[Len(log)].t = "inv-SingleUse-sell"
              /\ (~refused /\ ~call.qtyGiven)
                    => /\ Len(log) = 1
                       /\ Touches("inv-SingleUse-sell-qty") = {}

\* 200 shares asked back of the 100 located: refused, nothing clicked
C21_Witness ==
    /\ Done("credit_locates")
    /\ Located(call.symbol)
    /\ call.qtyGiven
    /\ call.qty = 200
    /\ inventory.shares = 100
    /\ Raised("InvalidArgument")
    /\ log = <<>>

\* ------------------------------------------------------------------------
\* C22
\* ------------------------------------------------------------------------

\* a call that has started and not ended takes its next step: the thread of
\* the program runs on, a sleep of a poll loop ends and the next poll is made
Proceeds == pc \notin {"idle", "done"} /\ Next

\* the program with its thread running on
FairSpec == Spec /\ WF_vars(Proceeds)

\* C22: every call that has started ends, with a result or an error,
\* whatever the page shows at each poll: every poll loop is left after a
\* bounded number of polls.
C22_Terminates == (pc \notin {"idle", "done"}) ~> (pc = "done")

\* ------------------------------------------------------------------------
\* C23
\* ------------------------------------------------------------------------

\* the positions of the program inside a poll loop: the ask poll of
\* load_symbol, the status poll and the offer poll of locate_stock, the
\* probes of the authenticated layout
PollLoops == {"load_poll", "locate_status", "locate_offers", "login_wait",
              "reload_wait"}

\* C23: a step taken inside a poll loop never ends the call with the
\* stale-element error: the error of a poll is swallowed and the loop goes
\* on to its next poll.
C23_StaleSwallowed ==
    [][ (pc \in PollLoops) => result' # Raise("StaleElementReference") ]_vars

\* ------------------------------------------------------------------------
\* C24
\* ------------------------------------------------------------------------

\* the positions of the log where the user name is typed into the login form
LoginAttempts == {k \in 1..Len(log) : log[k].a = "type" /\ log[k].t = "login"}

\* the positions of the log where conn loads the page again (the page login
\* loads once it is through comes right after the order type it selects)
Reloads ==
    {k \in 1..Len(log) :
        /\ log[k].a = "get"
        /\ (k = 1 \/ log[k - 1].t # "trading-order-select-type")}

\* C24: a call of conn that has ended either attempted the login or loaded
\* the page again, never both, and each of the two at most once.
C24_LoginOrReload ==
    Done("conn")
       => /\ ~(LoginAttempts # {} /\ Reloads # {})
          /\ Cardinality(LoginAttempts) <= 1
          /\ Cardinality(Reloads) <= 1

\* ------------------------------------------------------------------------
\* C25
\* ------------------------------------------------------------------------

\* C25: a call fails with SymbolNotFound only at a poll that found the ask
\* field filled with something that is not a number and the last
\* notification equal to 'Symbol not found: ' followed by the requested
\* symbol in capitals; a poll that finds no such notification, however long
\* the ask field stays empty or unreadable, never ends the call this way.
C25_NotFoundNeedsMessage ==
    Raised("SymbolNotFound")
       => /\ lastNotif = <<"Symbol not found: ", PanelName(call.symbol)>>
          /\ lastAsk # <<>>
          /\ ~NumericAsk(lastAsk)

\* load_symbol that failed with SymbolNotFound at the early checkpoint
C25_Witness ==
    /\ Done("load_symbol")
    /\ Raised("SymbolNotFound")
    /\ i = 15
    /\ lastNotif = <<"Symbol not found: ", "AAPL">>

\* ------------------------------------------------------------------------
\* C26
\* ------------------------------------------------------------------------

\* the steps of the order form of a kind before the submit click, each the
\* action and the element: the two selections, the quantity, the prices
FormSteps(op) ==
    LET prices == KindPrices(op)
    IN  << <<"select", "trading-order-select-type">>,
           <<"select", "trading-order-select-time">>,
           <<"clear", "trading-order-input-quantity">>,
           <<"type", "trading-order-input-quantity">> >>
        \o [k \in 1..(2 * Len(prices)) |->
              <<IF k % 2 = 1 THEN "clear" ELSE "type", prices[(k + 1) \div 2]>>]

\* the log of an order without the symbol load_symbol typed
FormLog ==
    IF Len(log) > 0 /\ log[1].t = "trading-order-input-symbol"
    THEN SubSeq(log, 2, Len(log)) ELSE log

\* C26: an order operation that ended with an element of the form not found
\* has clicked neither the submit control nor the popup, and has undone
\* nothing: what it did to the form is the first steps of the form of its
\* kind, in their order and each once, every field cleared was filled, and
\* the quantity entered is the quantity asked.
C26_NoRollback ==
    (OrderDone /\ Raised("NoSuchElement"))
       => /\ SubmitClicks = {}
          /\ ClicksOn({"short-locate-button-cancel"}) = {}
          /\ Len(FormLog) <= Len(FormSteps(call.op))
          /\ \A k \in 1..Len(FormLog) :
                /\ FormLog[k].a = FormSteps(call.op)[k][1]
                /\ FormLog[k].t = FormSteps(call.op)[k][2]
          /\ Len(FormLog) > 0 => FormLog[Len(FormLog)].a # "clear"
          /\ Len(FormLog) >= 4 => FormLog[4].n = call.qty

\* a limit order that entered the quantity and did not find the price field
C26_Witness ==
    /\ Done("limit_order")
    /\ Raised("NoSuchElement")
    /\ Len(FormLog) = 4
    /\ FormLog[4].t = "trading-order-input-quantity"
    /\ FormLog[4].n = call.qty

\* ------------------------------------------------------------------------
\* C27
\* ------------------------------------------------------------------------

\* C27: an order operation that clicked the submit control had the symbol
\* loaded: load_symbol returned True or False to it, never None after using
\* up its polls, and the quote panel shows the requested symbol.
C27_SubmitOnlyWhenLoaded ==
    (OrderDone /\ SubmitClicks # {})
       => /\ loadRes \in {"True", "False"}
          /\ PanelShows(call.symbol)

\* ------------------------------------------------------------------------
\* C28
\* ------------------------------------------------------------------------

\* C28: when locate_stock returns after the selection, the row of the
\* selected type showed its price per share and its total at the poll that
\* ended the loop, both were read, and the price and the total returned are
\* the two values read, none of them float('inf').
C28_SelectedHasData ==
    (Negotiated /\ result.kind = "return")
       => /\ rows[selected].st = "full"
          /\ pps[selected] # <<>>
          /\ total[selected] # <<>>
          /\ result.pps = rows[selected].pps
          /\ result.total = rows[selected].total
          /\ result.pps < Inf
          /\ result.total < Inf

\* ------------------------------------------------------------------------
\* C29
\* ------------------------------------------------------------------------

\* the positions of the log that hold a click on a control of an offer row
OfferClicks ==
    {k \in 1..Len(log) : log[k].a = "click" /\ log[k].t \in {"accept", "decline"}}

\* C29: when locate_stock returns after the selection, its log holds one
\* click on a control of an offer row and no more: it is the last step of
\* the call, it is on the row of the selected type, and no control of the
\* row of another type was clicked.
C29_OneOfferClick ==
    (Negotiated /\ result.kind = "return")
       => /\ Cardinality(OfferClicks) = 1
          /\ OfferClicks = {Len(log)}
          /\ log[Len(log)].s = selected
          /\ \A k \in 1..Len(log) : log[k].s \notin (TypeNames \ {selected})

\* SingleUse is the cheapest of three offers and the only row clicked
C29_Witness ==
    /\ Negotiated
    /\ result.kind = "return"
    /\ selected = "SingleUse"
    /\ rows["PreBorrow"].st = "full"
    /\ rows["Locate"].st = "full"
    /\ log[Len(log)].s = "SingleUse"
    /\ log[Len(log)].t = "decline"

\* ------------------------------------------------------------------------
\* C30
\* ------------------------------------------------------------------------

\* the elements of the locate tab locate_stock acts on
LocateTabTargets == {"locate-tab-1", "short-list-input-symbol",
                     "short-list-input-shares", "short-list-button-locate",
                     "accept", "decline"}

\* C30: a call of locate_stock whose load_symbol returned False (market
\* closed) returns None, no Data, and has done nothing on the locate tab:
\* all its log can hold is the symbol typed by load_symbol.
C30_ClosedMarketNoLocate ==
    (Done("locate_stock") /\ loadRes = "False")
       => /\ Returned("None")
          /\ \A k \in 1..Len(log) : log[k].t \notin LocateTabTargets
          /\ Len(log) <= 1
          /\ status = ""
          /\ selected = ""

\* locate_stock that found the market closed and returned None
C30_Witness ==
    /\ Done("locate_stock")
    /\ loadRes = "False"
    /\ Returned("None")
    /\ Len(log) = 1
    /\ log[1].t = "trading-order-input-symbol"

====
